---- MODULE Spec2Model ----
(***************************************************************************)
(* Real-time messaging core of tuplansaludable_core:                       *)
(*   - SocketService (utils/socket.ts): socket authentication, the         *)
(*     connectedUsers registry, presence broadcast, send_message,          *)
(*     mark_as_read, typing and conversation rooms;                        *)
(*   - ChatMessage (models/ChatMessage.ts): the message store, its save    *)
(*     hooks, statics and instance methods;                                *)
(*   - chatController + chat routes + authorizeChatAccess: the REST        *)
(*     surface over the same store.                                        *)
(***************************************************************************)
EXTENDS Integers, Sequences, FiniteSets, TLC

(***************************************************************************)
(* Bounds of the model                                                     *)
(***************************************************************************)
\* number of documents ever inserted in the chatmessages collection
MaxMsgs == 2
\* last value of the clock (new Date() is read as `now`)
MaxTime == 1

(***************************************************************************)
(* Universe                                                                *)
(***************************************************************************)
None == "none"
\* an ObjectId that names no user document
Ghost == "ghost"
Users == {"t1", "c1", "c2"}
Sockets == {"s1", "s2", "s3"}
\* socket ids in the order the server hands them out
SockOrder == <<"s1", "s2", "s3">>
TRAINER == "TRAINER"
USER == "USER"

\* handler invocations that may be in flight at the same time
Calls == {"k1", "k2"}

VARIABLES
  calls,           \* per invocation: where the async handler stands
  accounts,        \* the other fields of every user document
  signups,         \* user documents inserted by register
  trainerId,       \* User.trainerId of every user document
  sockState,       \* per socket: "free" (no connection), "refused", "active"
  sockUser,        \* socket.userId set by the middleware
  connectedUsers,  \* SocketService.connectedUsers: userId -> socketId
  rooms,           \* conversation rooms joined: set of <<socket, room>>
  messages,        \* the chatmessages collection
  nextId,          \* insertion sequence of the next document (_id)
  now,             \* the clock
  docs,            \* in-memory ChatMessage documents held by callers
  result,          \* ids of the documents the last query returned, in order
  out,             \* socket events emitted by the last step
  last             \* the last operation and what it answered

vars == <<calls, accounts, signups, trainerId, sockState, sockUser, connectedUsers, rooms, messages,
          nextId, now, docs, result, out, last>>

sockVars == <<sockState, sockUser, connectedUsers, rooms>>
userVars == <<calls, accounts, signups>>

\* UserRole of each user document
role(u) == accounts[u].role

\* User.isActive of each user document
isActive(u) == u \in Users /\ accounts[u].isActive

(***************************************************************************)
(* Tokens presented at the handshake                                       *)
(***************************************************************************)
Tokens ==
  {[kind |-> "none", sub |-> None],
   [kind |-> "invalid", sub |-> None],
   [kind |-> "expired", sub |-> "c1"],
   [kind |-> "valid", sub |-> Ghost]}
  \cup {[kind |-> "valid", sub |-> u] : u \in Users}

\* the tokens the middleware accepts
ValidTokens == {tok \in Tokens : tok.kind = "valid" /\ tok.sub \in Users}

Thrown == "thrown"
Rejected == "rejected"

\* a mutant of verifyToken that does not check the expiry
VerifyTokenNoExpiry(tok) ==
  IF tok.kind \in {"valid", "expired"} THEN tok.sub ELSE Thrown

\* jwt.verify: the decoded subject, or an exception
verifyToken(tok) ==
  IF tok.kind = "valid" THEN tok.sub ELSE Thrown

\* io.use(...): the userId attached to the socket, or next(new Error(...))
SocketMiddleware(tok) ==
  IF tok.kind = "none" THEN Rejected
  ELSE LET decoded == verifyToken(tok) IN
       IF decoded = Thrown THEN Rejected
       ELSE IF ~(decoded \in Users /\ isActive(decoded)) THEN Rejected
       ELSE decoded

(***************************************************************************)
(* Events                                                                  *)
(***************************************************************************)
Event(ev, to, about, tag, n) ==
  [ev |-> ev, to |-> to, about |-> about, tag |-> tag, n |-> n]

\* a mutant of broadcastUserStatus that announces arrivals only
BroadcastOnlineOnly(userId, status) ==
  IF status = "online"
  THEN {[ev |-> "user_status", to |-> "ALL", about |-> userId,
         tag |-> status, n |-> now]}
  ELSE {}

\* io.emit('user_status', {userId, status, timestamp}): to every socket
broadcastUserStatus(userId, status) ==
  {Event("user_status", "ALL", userId, status, now)}

\* a mutant of emitToUser that reaches every live socket of the user
EmitToUserAllSockets(userId, ev, about, tag, n) ==
  {Event(ev, s, about, tag, n) :
     s \in {x \in Sockets : sockState[x] = "active" /\ sockUser[x] = userId}}

\* emitToUser: to the one socket id the registry holds for the user, if any
emitToUser(userId, ev, about, tag, n) ==
  IF userId \in Users /\ connectedUsers[userId] # None
  THEN {Event(ev, connectedUsers[userId], about, tag, n)}
  ELSE {}

\* socket.emit(...): to the socket that sent the action
socketEmit(s, ev, about, tag, n) == {Event(ev, s, about, tag, n)}

isUserOnline(userId) == connectedUsers[userId] # None

\* the live, authenticated connections of a user
LiveConns(u) == {s \in Sockets : sockState[s] = "active" /\ sockUser[s] = u}

Op(op, sock, actor, partner, res, n) ==
  [op |-> op, sock |-> sock, actor |-> actor, partner |-> partner,
   res |-> res, n |-> n]

(***************************************************************************)
(* Connection life cycle                                                   *)
(***************************************************************************)
\* the id the server gives the next connection: the first one of the pool
\* that no live connection uses
FreshSocket(pool) ==
  LET free == {i \in 1..Len(SockOrder) :
                 SockOrder[i] \in pool /\ sockState[SockOrder[i]] # "active"}
  IN  SockOrder[CHOOSE i \in free : \A j \in free : i <= j]

\* handshake + io.on('connection')
Connect(s, tok) ==
  /\ sockState[s] # "active"
  /\ LET uid == SocketMiddleware(tok) IN
     IF uid = Rejected
     THEN /\ sockState' = [sockState EXCEPT ![s] = "refused"]
          /\ out' = {}
          /\ last' = Op("connect", s, None, None, tok.kind, 0)
          /\ UNCHANGED <<sockUser, connectedUsers>>
     ELSE /\ sockState' = [sockState EXCEPT ![s] = "active"]
          /\ sockUser' = [sockUser EXCEPT ![s] = uid]
          /\ connectedUsers' = [connectedUsers EXCEPT ![uid] = s]
          /\ out' = broadcastUserStatus(uid, "online")
          /\ last' = Op("connect", s, uid, None, tok.kind, 0)
  /\ UNCHANGED <<userVars, trainerId, rooms, messages, nextId, now, docs, result>>

\* a client opens a connection on a pool of socket ids
Open(pool, tok) ==
  /\ \E x \in pool : sockState[x] # "active"
  /\ Connect(FreshSocket(pool), tok)

\* a mutant of the disconnect handler that leaves the registry as it is
DisconnectKeepsEntry(s) ==
  /\ sockState[s] = "active"
  /\ sockState' = [sockState EXCEPT ![s] = "free"]
  /\ sockUser' = [sockUser EXCEPT ![s] = None]
  /\ rooms' = {r \in rooms : r[1] # s}
  /\ out' = broadcastUserStatus(sockUser[s], "offline")
  /\ last' = Op("disconnect", s, sockUser[s], None, "ok", 0)
  /\ UNCHANGED <<userVars, trainerId, connectedUsers, messages, nextId, now,
                 docs, result>>

\* socket.on('disconnect')
Disconnect(s) ==
  /\ sockState[s] = "active"
  /\ sockState' = [sockState EXCEPT ![s] = "free"]
  /\ sockUser' = [sockUser EXCEPT ![s] = None]
  /\ connectedUsers' = [connectedUsers EXCEPT ![sockUser[s]] = None]
  /\ rooms' = {r \in rooms : r[1] # s}
  /\ out' = broadcastUserStatus(sockUser[s], "offline")
  /\ last' = Op("disconnect", s, sockUser[s], None, "ok", 0)
  /\ UNCHANGED <<userVars, trainerId, messages, nextId, now, docs, result>>

(***************************************************************************)
(* Typing and conversation rooms                                           *)
(***************************************************************************)
\* handleTypingStart / handleTypingStop
Typing(s, receiverId, isTyping) ==
  /\ sockState[s] = "active"
  /\ out' = emitToUser(receiverId, "user_typing", sockUser[s],
                       IF isTyping THEN "true" ELSE "false", 0)
  /\ last' = Op(IF isTyping THEN "typing_start" ELSE "typing_stop",
                s, sockUser[s], receiverId, "ok", 0)
  /\ UNCHANGED <<userVars, trainerId, sockVars, messages, nextId, now, docs, result>>

\* getConversationRoom: the two ids, sorted
getConversationRoom(userId1, userId2) ==
  IF userId1 = "c1" \/ (userId1 = "c2" /\ userId2 # "c1")
     \/ (userId1 = "t1" /\ userId2 = "t1")
  THEN <<userId1, userId2>> ELSE <<userId2, userId1>>

\* handleJoinConversation
JoinConversation(s, partnerId) ==
  /\ sockState[s] = "active"
  /\ rooms' = rooms \cup {<<s, getConversationRoom(sockUser[s], partnerId)>>}
  /\ out' = {}
  /\ last' = Op("join_conversation", s, sockUser[s], partnerId, "ok", 0)
  /\ UNCHANGED <<userVars, trainerId, sockState, sockUser, connectedUsers,
                 messages, nextId, now, docs, result>>

\* handleLeaveConversation
LeaveConversation(s, partnerId) ==
  /\ sockState[s] = "active"
  /\ rooms' = rooms \ {<<s, getConversationRoom(sockUser[s], partnerId)>>}
  /\ out' = {}
  /\ last' = Op("leave_conversation", s, sockUser[s], partnerId, "ok", 0)
  /\ UNCHANGED <<userVars, trainerId, sockState, sockUser, connectedUsers,
                 messages, nextId, now, docs, result>>

(***************************************************************************)
(* The message store: ChatMessage schema, hooks, statics and methods       *)
(***************************************************************************)
\* readAt: { type: Date, default: null }
NullDate == -1

\* maxlength of ChatMessage.message and of sendMessageSchema.message
MaxMessageLength == 2000

\* A request payload: messageType, the message as sent (raw length), its
\* length once trimmed, and the number of attachments.
Payload(t, raw, trimmed, att) ==
  [messageType |-> t, raw |-> raw, trimmed |-> trimmed, attachments |-> att]

\* a well-formed text message
TextOk == Payload("text", 2, 2, 0)

\* an invocation slot with no handler running
IdleCall ==
  [pc |-> "idle", op |-> None, sock |-> None, actor |-> None,
   partner |-> None, p |-> TextOk, todo |-> {}, n |-> 0, res |-> None]

Payloads ==
  {Payload("text", 2, 2, 0),
   Payload("text", 2, 0, 0),
   Payload("image", 2, 2, 0)}

\* schema validators run by save(): required (after the trim setter),
\* maxlength and the messageType enum
SchemaValid(p) ==
  /\ p.trimmed >= 1
  /\ p.trimmed <= MaxMessageLength
  /\ p.messageType \in {"text", "image", "file"}

\* a mutant of the first pre('save') hook without the self-messaging check
PreSaveNoSelfCheck(senderId, receiverId, p) ==
  IF p.messageType = "text" /\ p.trimmed = 0 THEN "TEXT_WITHOUT_CONTENT"
  ELSE IF p.messageType \in {"image", "file"} /\ p.attachments = 0
       THEN "NO_ATTACHMENTS"
  ELSE "ok"

\* chatMessageSchema.pre('save'): content by type, then no self-messaging;
\* "ok" is next(), anything else the Error handed to next
PreSave(senderId, receiverId, p) ==
  IF p.messageType = "text" /\ p.trimmed = 0 THEN "TEXT_WITHOUT_CONTENT"
  ELSE IF p.messageType \in {"image", "file"} /\ p.attachments = 0
       THEN "NO_ATTACHMENTS"
  ELSE IF senderId = receiverId THEN "SELF_MESSAGE"
  ELSE "ok"

\* new ChatMessage({...}).save(): schema validation, then the hooks
SaveOutcome(senderId, receiverId, p) ==
  IF ~SchemaValid(p) THEN "ValidationError"
  ELSE PreSave(senderId, receiverId, p)

SaveOk(senderId, receiverId, p) == SaveOutcome(senderId, receiverId, p) = "ok"

\* the document save() inserts
NewMessage(senderId, receiverId, p) ==
  [id |-> nextId, senderId |-> senderId, receiverId |-> receiverId,
   messageType |-> p.messageType, message |-> p.trimmed,
   attachments |-> p.attachments, createdAt |-> now,
   isRead |-> FALSE, readAt |-> NullDate]

\* the documents an updateMany({senderId, receiverId, isRead: false}) matches
UnreadFrom(senderId, receiverId) ==
  {m \in messages : m.senderId = senderId /\ m.receiverId = receiverId
                    /\ ~m.isRead}

\* a mutant of the read-marking update whose filter forgets isRead: false
MarkReadNoFilter(senderId, receiverId) ==
  {IF m.senderId = senderId /\ m.receiverId = receiverId
   THEN [m EXCEPT !.isRead = TRUE, !.readAt = now] ELSE m : m \in messages}

\* updateMany(..., {$set: {isRead: true, readAt: new Date()}}): the collection
\* afterwards
MarkRead(senderId, receiverId) ==
  {IF m \in UnreadFrom(senderId, receiverId)
   THEN [m EXCEPT !.isRead = TRUE, !.readAt = now] ELSE m : m \in messages}

\* a mutant of modifiedCount that counts every matched document of the pair
ModifiedCountAllOfPair(senderId, receiverId) ==
  Cardinality({m \in messages :
                 m.senderId = senderId /\ m.receiverId = receiverId})

\* result.modifiedCount of that update
ModifiedCount(senderId, receiverId) ==
  Cardinality(UnreadFrom(senderId, receiverId))

\* the documents of the conversation between two users
Conversation(userId1, userId2) ==
  {m \in messages :
     \/ (m.senderId = userId1 /\ m.receiverId = userId2)
     \/ (m.senderId = userId2 /\ m.receiverId = userId1)}

\* every sequence that lists each document of S once
RECURSIVE Orderings(_)
Orderings(S) ==
  IF S = {} THEN {<<>>}
  ELSE UNION {{<<m>> \o rest : rest \in Orderings(S \ {m})} : m \in S}

\* a mutant of the sort that breaks ties by insertion sequence
SortedByCreatedAtThenId(S) ==
  {q \in Orderings(S) :
     \A i, j \in 1..Len(q) :
        i < j => \/ q[i].createdAt > q[j].createdAt
                 \/ (q[i].createdAt = q[j].createdAt /\ q[i].id > q[j].id)}

\* a mutant of the sort that lists oldest first
SortedByCreatedAtAsc(S) ==
  {q \in Orderings(S) :
     \A i, j \in 1..Len(q) : i < j => q[i].createdAt <= q[j].createdAt}

\* .sort({createdAt: -1}): the orders the store may return; documents with
\* equal createdAt come in an order the query does not fix
SortedByCreatedAtDesc(S) ==
  {q \in Orderings(S) :
     \A i, j \in 1..Len(q) : i < j => q[i].createdAt >= q[j].createdAt}

\* .skip(skip).limit(limit) of a result list
Page(q, skip, limit) ==
  SubSeq(q, skip + 1, IF skip + limit < Len(q) THEN skip + limit ELSE Len(q))

Ids(q) == [i \in 1..Len(q) |-> q[i].id]

\* page sizes and pages requested (limit: 1..100, default 50)
DefaultLimit == 50
\* page size of a search when the request names none
SearchLimit == 20
Limits == {1, DefaultLimit}
Pages == {1, 2}

(***************************************************************************)
(* Authorization gates                                                     *)
(***************************************************************************)
\* a mutant of canUsersChat that only compares the roles
CanUsersChatRolesOnly(userId1, userId2) ==
  IF ~(userId1 \in Users /\ userId2 \in Users) THEN FALSE
  ELSE role(userId1) # role(userId2)

\* SocketService.canUsersChat
canUsersChat(userId1, userId2) ==
  IF ~(userId1 \in Users /\ userId2 \in Users) THEN FALSE
  ELSE IF role(userId1) = TRAINER /\ role(userId2) = USER
       THEN trainerId[userId2] = userId1
  ELSE IF role(userId1) = USER /\ role(userId2) = TRAINER
       THEN trainerId[userId1] = userId2
  ELSE FALSE

\* a mutant of authorizeChatAccess that lets every existing partner through
AuthorizeChatAccessOpen(currentUserId, partnerId) ==
  IF partnerId \notin Users THEN "USER_NOT_FOUND" ELSE "ok"

\* middleware authorizeChatAccess: "ok" (next()) or the error it answers
authorizeChatAccess(currentUserId, partnerId) ==
  IF partnerId \notin Users THEN "USER_NOT_FOUND"
  ELSE IF currentUserId \notin Users THEN "CURRENT_USER_NOT_FOUND"
  ELSE LET hasPermission ==
             IF role(currentUserId) = TRAINER
             THEN trainerId[partnerId] = currentUserId
             ELSE IF role(currentUserId) = USER
             THEN trainerId[currentUserId] = partnerId
             ELSE FALSE
       IN IF hasPermission THEN "ok" ELSE "CHAT_NOT_ALLOWED"

\* the Relationship predicate: one user is the other's assigned trainer
Linked(a, b) ==
  /\ a \in Users /\ b \in Users
  /\ \/ (role(a) = TRAINER /\ trainerId[b] = a)
     \/ (role(b) = TRAINER /\ trainerId[a] = b)

(***************************************************************************)
(* Socket actions on the store                                             *)
(***************************************************************************)
\* length of the preview before '...' is appended
PreviewCut == 50

\* message.length > 50 ? message.substring(0, 50) + '...' : message
PreviewLength(raw) == IF raw > PreviewCut THEN PreviewCut + 3 ELSE raw

\* handleSendMessage
SocketSendMessage(s, receiverId, p) ==
  /\ sockState[s] = "active"
  /\ LET uid == sockUser[s] IN
     IF ~canUsersChat(uid, receiverId)
     THEN /\ out' = socketEmit(s, "error", uid, "CHAT_NOT_ALLOWED", 0)
          /\ last' = Op("send_message", s, uid, receiverId,
                        "CHAT_NOT_ALLOWED", 0)
          /\ UNCHANGED <<messages, nextId>>
     ELSE IF ~SaveOk(uid, receiverId, p)
     THEN /\ out' = socketEmit(s, "error", uid, "SEND_FAILED", 0)
          /\ last' = Op("send_message", s, uid, receiverId, "SEND_FAILED", 0)
          /\ UNCHANGED <<messages, nextId>>
     ELSE /\ nextId <= MaxMsgs
          /\ messages' = messages \cup {NewMessage(uid, receiverId, p)}
          /\ nextId' = nextId + 1
          /\ out' = socketEmit(s, "message_sent", uid, "", nextId)
                    \cup emitToUser(receiverId, "new_message", uid, "", nextId)
                    \cup emitToUser(receiverId, "notification", uid,
                                    "new_message", PreviewLength(p.raw))
          /\ last' = Op("send_message", s, uid, receiverId, "ok", nextId)
  /\ UNCHANGED <<userVars, trainerId, sockVars, now, docs, result>>

\* handleMarkAsRead
SocketMarkAsRead(s, senderId) ==
  /\ sockState[s] = "active"
  /\ LET uid == sockUser[s] IN
     /\ messages' = MarkRead(senderId, uid)
     /\ out' = emitToUser(senderId, "messages_read", uid, "",
                          ModifiedCount(senderId, uid))
     /\ last' = Op("mark_as_read", s, uid, senderId, "ok",
                   ModifiedCount(senderId, uid))
  /\ UNCHANGED <<userVars, trainerId, sockVars, nextId, now, docs, result>>

(***************************************************************************)
(* REST handlers (routes/chat.ts + chatController.ts)                      *)
(***************************************************************************)
\* validate(sendMessageSchema): message trimmed, 1..2000; messageType enum
sendMessageSchema(p) ==
  /\ p.trimmed >= 1
  /\ p.trimmed <= MaxMessageLength
  /\ p.messageType \in {"text", "image", "file"}

\* POST /api/chat/:partnerId
RestSendMessage(actor, partnerId, p) ==
  /\ LET gate == authorizeChatAccess(actor, partnerId) IN
     IF ~sendMessageSchema(p)
     THEN /\ last' = Op("rest_send", None, actor, partnerId,
                        "VALIDATION_ERROR", 0)
          /\ UNCHANGED <<messages, nextId>>
     ELSE IF gate # "ok"
     THEN /\ last' = Op("rest_send", None, actor, partnerId, gate, 0)
          /\ UNCHANGED <<messages, nextId>>
     ELSE IF actor = partnerId
     THEN /\ last' = Op("rest_send", None, actor, partnerId,
                        "SELF_MESSAGE_NOT_ALLOWED", 0)
          /\ UNCHANGED <<messages, nextId>>
     ELSE IF ~SaveOk(actor, partnerId, p)
     THEN /\ last' = Op("rest_send", None, actor, partnerId,
                        "INTERNAL_SERVER_ERROR", 0)
          /\ UNCHANGED <<messages, nextId>>
     ELSE /\ nextId <= MaxMsgs
          /\ messages' = messages \cup {NewMessage(actor, partnerId, p)}
          /\ nextId' = nextId + 1
          /\ last' = Op("rest_send", None, actor, partnerId, "ok", nextId)
  /\ out' = {}
  /\ UNCHANGED <<userVars, trainerId, sockVars, now, docs, result>>

\* PUT /api/chat/:partnerId/read
RestMarkAsRead(actor, partnerId) ==
  /\ LET gate == authorizeChatAccess(actor, partnerId) IN
     IF gate # "ok"
     THEN /\ last' = Op("rest_mark", None, actor, partnerId, gate, 0)
          /\ UNCHANGED messages
     ELSE /\ messages' = MarkRead(partnerId, actor)
          /\ last' = Op("rest_mark", None, actor, partnerId, "ok",
                        ModifiedCount(partnerId, actor))
  /\ out' = {}
  /\ UNCHANGED <<userVars, trainerId, sockVars, nextId, now, docs, result>>

\* GET /api/chat/:partnerId?page&limit
\* `result` is the page as the query returns it (find().sort({createdAt: -1})
\* .skip().limit()); the response body carries the same page reversed.
RestGetMessages(actor, partnerId, page, limit) ==
  /\ LET gate == authorizeChatAccess(actor, partnerId) IN
     IF gate # "ok"
     THEN /\ last' = Op("rest_get", None, actor, partnerId, gate, 0)
          /\ result' = <<>>
          /\ UNCHANGED messages
     ELSE \E q \in SortedByCreatedAtDesc(Conversation(actor, partnerId)) :
            /\ result' = Ids(Page(q, (page - 1) * limit, limit))
            /\ messages' = MarkRead(partnerId, actor)
            /\ last' = Op("rest_get", None, actor, partnerId, "ok",
                          Cardinality(Conversation(actor, partnerId)))
  /\ out' = {}
  /\ UNCHANGED <<userVars, trainerId, sockVars, nextId, now, docs>>

\* GET /api/chat/:partnerId/search?query: validateQuery(searchQuerySchema),
\* authorizeChatAccess, searchMessages; `matches` stands for the regex on the
\* body (the query matches every message of the pair, or none)
RestSearchMessages(actor, partnerId, query, matches) ==
  /\ LET gate == authorizeChatAccess(actor, partnerId) IN
     IF query = ""
     THEN /\ last' = Op("rest_search", None, actor, partnerId,
                        "VALIDATION_ERROR", 0)
          /\ result' = <<>>
     ELSE IF gate # "ok"
     THEN /\ last' = Op("rest_search", None, actor, partnerId, gate, 0)
          /\ result' = <<>>
     ELSE LET found == IF matches THEN Conversation(actor, partnerId)
                       ELSE {} IN
          \E q \in SortedByCreatedAtDesc(found) :
            /\ result' = Ids(Page(q, 0, SearchLimit))
            /\ last' = Op("rest_search", None, actor, partnerId, "ok",
                          Cardinality(found))
  /\ out' = {}
  /\ UNCHANGED <<userVars, trainerId, sockVars, messages, nextId, now, docs>>

\* GET /api/chat/unread: countDocuments({receiverId, isRead: false})
RestGetUnreadCount(actor) ==
  /\ last' = Op("rest_unread", None, actor, None, "ok",
                Cardinality({m \in messages :
                               m.receiverId = actor /\ ~m.isRead}))
  /\ out' = {}
  /\ UNCHANGED <<userVars, trainerId, sockVars, messages, nextId, now, docs,
                 result>>

\* an id as a pipeline operand: the string req.user.id (_id.toString()), an
\* ObjectId value, or a SchemaType instance (new Schema.Types.ObjectId(..))
StringId(u) == [type |-> "string", hex |-> u]
ObjectId(u) == [type |-> "ObjectId", hex |-> u]
SchemaTypeId(u) == [type |-> "SchemaType", hex |-> u]

\* a mutant of the pipeline comparison that casts its operand to ObjectId
AggEqCasting(field, operand) == operand.hex = field

\* $eq / $match equality of a stored ObjectId field with an operand inside
\* aggregate([...]): pipelines are sent as written, operands are not cast to
\* the schema type, and BSON compares values of different types as unequal
AggEq(field, operand) == operand.type = "ObjectId" /\ operand.hex = field

\* page size of the conversation list when the request names none
ConversationsLimit == 10

\* $match {$or: [{senderId: id}, {receiverId: id}]}
MatchedBy(id) ==
  {m \in messages : AggEq(m.senderId, id) \/ AggEq(m.receiverId, id)}

\* $addFields partnerId: $cond($eq($senderId, id), $receiverId, $senderId)
PartnerOf(m, id) == IF AggEq(m.senderId, id) THEN m.receiverId ELSE m.senderId

\* $group by partnerId over the list q sorted by createdAt descending
\* ($first: the first document of the group in q; unreadCount: $sum), then
\* $lookup + $unwind (groups whose partner has no user document are dropped)
\* and $project
Grouped(q, id) ==
  LET partners == {PartnerOf(q[i], id) : i \in 1..Len(q)} \cap Users
      first(p) == q[CHOOSE i \in 1..Len(q) :
                      /\ PartnerOf(q[i], id) = p
                      /\ \A j \in 1..(i - 1) : PartnerOf(q[j], id) # p]
  IN {[partnerId |-> p,
       lastMessage |-> first(p).id,
       lastMessageTime |-> first(p).createdAt,
       unreadCount |->
         Cardinality({i \in 1..Len(q) :
                        /\ PartnerOf(q[i], id) = p
                        /\ AggEq(q[i].receiverId, id)
                        /\ ~q[i].isRead})] : p \in partners}

\* $sort {lastMessageTime: -1}: the orders the stage may produce
SortedByLastMessageTime(S) ==
  {r \in Orderings(S) :
     \A i, j \in 1..Len(r) :
        i < j => r[i].lastMessageTime >= r[j].lastMessageTime}

\* the whole pipeline of getConversations / getRecentConversations: every
\* list it may return for the operand id
RecentConversations(id, limit) ==
  UNION {{Page(r, 0, limit) : r \in SortedByLastMessageTime(Grouped(q, id))} :
           q \in SortedByCreatedAtDesc(MatchedBy(id))}

\* GET /api/chat/conversations?limit: ChatMessage.aggregate with
\* currentUserId = req.user.id, a string
RestGetConversations(actor, limit) ==
  /\ \E r \in RecentConversations(StringId(actor), limit) :
       /\ result' = r
       /\ last' = Op("rest_conversations", None, actor, None, "ok", limit)
  /\ out' = {}
  /\ UNCHANGED <<userVars, trainerId, sockVars, messages, nextId, now, docs>>

\* ChatMessage.getRecentConversations(userId, limit): the same pipeline with
\* new Schema.Types.ObjectId(userId) as operand
GetRecentConversations(userId, limit) ==
  /\ \E r \in RecentConversations(SchemaTypeId(userId), limit) :
       /\ result' = r
       /\ last' = Op("getRecentConversations", None, userId, None, "ok",
                     limit)
  /\ out' = {}
  /\ UNCHANGED <<userVars, trainerId, sockVars, messages, nextId, now, docs>>

\* a mutant of deleteMessage without the sender check
DeleteOutcomeNoOwnerCheck(actor, messageId) ==
  IF ~(\E m \in messages : m.id = messageId) THEN "MESSAGE_NOT_FOUND"
  ELSE "ok"

\* deleteMessage: what the handler answers
DeleteOutcome(actor, messageId) ==
  IF ~(\E m \in messages : m.id = messageId) THEN "MESSAGE_NOT_FOUND"
  ELSE IF (CHOOSE m \in messages : m.id = messageId).senderId # actor
       THEN "INSUFFICIENT_PERMISSIONS"
  ELSE "ok"

\* DELETE /api/chat/message/:messageId
RestDeleteMessage(actor, messageId) ==
  /\ LET res == DeleteOutcome(actor, messageId) IN
     /\ messages' = IF res = "ok"
                    THEN {m \in messages : m.id # messageId}
                    ELSE messages
     /\ last' = Op("rest_delete", None, actor, None, res, messageId)
  /\ out' = {}
  /\ UNCHANGED <<userVars, trainerId, sockVars, nextId, now, docs, result>>

(***************************************************************************)
(* The model's own API, used without the gateway (scripts/seed.ts)         *)
(***************************************************************************)
\* ChatMessage.create({...}) / new ChatMessage({...}).save()
Create(senderId, receiverId, p) ==
  /\ IF ~SaveOk(senderId, receiverId, p)
     THEN /\ last' = Op("create", None, senderId, receiverId,
                        SaveOutcome(senderId, receiverId, p), 0)
          /\ UNCHANGED <<messages, nextId>>
     ELSE /\ nextId <= MaxMsgs
          /\ messages' = messages \cup {NewMessage(senderId, receiverId, p)}
          /\ nextId' = nextId + 1
          /\ last' = Op("create", None, senderId, receiverId, "ok", nextId)
  /\ out' = {}
  /\ UNCHANGED <<userVars, trainerId, sockVars, now, docs, result>>

\* ChatMessage.findConversation(userId1, userId2, limit, skip)
FindConversation(userId1, userId2, limit, skip) ==
  /\ \E q \in SortedByCreatedAtDesc(Conversation(userId1, userId2)) :
       result' = Ids(Page(q, skip, limit))
  /\ last' = Op("findConversation", None, userId1, userId2, "ok", 0)
  /\ out' = {}
  /\ UNCHANGED <<userVars, trainerId, sockVars, messages, nextId, now, docs>>

\* ChatMessage.markAsRead(senderId, receiverId) (static)
StaticMarkAsRead(senderId, receiverId) ==
  /\ messages' = MarkRead(senderId, receiverId)
  /\ last' = Op("markAsRead", None, receiverId, senderId, "ok",
                ModifiedCount(senderId, receiverId))
  /\ out' = {}
  /\ UNCHANGED <<userVars, trainerId, sockVars, nextId, now, docs, result>>

\* ChatMessage.findById(id): an in-memory document
LoadDoc(messageId) ==
  /\ \E m \in messages : m.id = messageId /\ docs' = {m}
  /\ last' = Op("findById", None, None, None, "ok", messageId)
  /\ out' = {}
  /\ UNCHANGED <<userVars, trainerId, sockVars, messages, nextId, now, result>>

\* doc.markAsRead() (instance): decides on the in-memory copy, then save()
\* writes the modified paths isRead and readAt to the stored document
DocMarkAsRead(d) ==
  /\ d \in docs
  /\ IF d.isRead
     THEN /\ UNCHANGED <<messages, docs>>
          /\ last' = Op("doc_markAsRead", None, None, None, "unchanged", d.id)
     ELSE /\ docs' = {[d EXCEPT !.isRead = TRUE, !.readAt = now]}
          /\ messages' = {IF m.id = d.id
                          THEN [m EXCEPT !.isRead = TRUE, !.readAt = now]
                          ELSE m : m \in messages}
          /\ last' = Op("doc_markAsRead", None, None, None,
                        IF \E m \in messages : m.id = d.id
                        THEN "ok" ELSE "DocumentNotFoundError", d.id)
  /\ out' = {}
  /\ UNCHANGED <<userVars, trainerId, sockVars, nextId, now, result>>

\* time passes
Tick ==
  /\ now < MaxTime
  /\ now' = now + 1
  /\ UNCHANGED <<userVars, trainerId, sockVars, messages, nextId, docs, result, out,
                 last>>

(***************************************************************************)
(* handleSendMessage step by step: the handler yields at every await, and  *)
(* other handlers run in between                                           *)
(***************************************************************************)
\* a mutant of the insert that replaces a document of the same sender,
\* receiver and millisecond instead of adding one
InsertLastWriteWins(senderId, receiverId, p) ==
  {m \in messages : ~(/\ m.senderId = senderId
                      /\ m.receiverId = receiverId
                      /\ m.createdAt = now)}
    \cup {NewMessage(senderId, receiverId, p)}

\* newMessage.save(): the collection after the insert
Insert(senderId, receiverId, p) ==
  messages \cup {NewMessage(senderId, receiverId, p)}

\* the handler of invocation k ends: what it answered is the last operation
Finish(k, res, n) ==
  /\ calls' = [calls EXCEPT ![k].pc = "done", ![k].res = res, ![k].n = n]
  /\ last' = Op(calls[k].op, calls[k].sock, calls[k].actor, calls[k].partner,
                res, n)

\* the handler of invocation k goes on to its next await
Await(k, pc) ==
  /\ calls' = [calls EXCEPT ![k].pc = pc]
  /\ last' = Op("await", calls[k].sock, calls[k].actor, calls[k].partner,
                pc, 0)
  /\ out' = {}

\* socket.on('send_message'): the handler starts; await canUsersChat
SendStart(k, s, receiverId, p) ==
  /\ calls[k].pc = "idle"
  /\ sockState[s] = "active"
  /\ calls' = [calls EXCEPT ![k] =
                 [IdleCall EXCEPT !.pc = "canUsersChat", !.op = "send_message",
                                  !.sock = s, !.actor = sockUser[s],
                                  !.partner = receiverId, !.p = p]]
  /\ last' = Op("await", s, sockUser[s], receiverId, "canUsersChat", 0)
  /\ out' = {}
  /\ UNCHANGED <<accounts, signups, trainerId, sockVars, messages, nextId,
                 now, docs, result>>

\* canUsersChat resolves
SendCanChat(k) ==
  /\ calls[k].op = "send_message"
  /\ calls[k].pc = "canUsersChat"
  /\ IF ~canUsersChat(calls[k].actor, calls[k].partner)
     THEN /\ out' = socketEmit(calls[k].sock, "error", calls[k].actor,
                               "CHAT_NOT_ALLOWED", 0)
          /\ Finish(k, "CHAT_NOT_ALLOWED", 0)
     ELSE Await(k, "save")
  /\ UNCHANGED <<accounts, signups, trainerId, sockVars, messages, nextId,
                 now, docs, result>>

\* await newMessage.save() resolves or rejects; storeUp is whether the
\* database answers
SendSave(k, storeUp) ==
  /\ calls[k].op = "send_message"
  /\ calls[k].pc = "save"
  /\ IF ~storeUp \/ ~SaveOk(calls[k].actor, calls[k].partner, calls[k].p)
     THEN /\ out' = socketEmit(calls[k].sock, "error", calls[k].actor,
                               "SEND_FAILED", 0)
          /\ Finish(k, "SEND_FAILED", 0)
          /\ UNCHANGED <<messages, nextId>>
     ELSE /\ nextId <= MaxMsgs
          /\ messages' = Insert(calls[k].actor, calls[k].partner, calls[k].p)
          /\ nextId' = nextId + 1
          /\ calls' = [calls EXCEPT ![k].pc = "populate", ![k].n = nextId]
          /\ last' = Op("await", calls[k].sock, calls[k].actor,
                        calls[k].partner, "populate", 0)
          /\ out' = {}
  /\ UNCHANGED <<accounts, signups, trainerId, sockVars, now, docs, result>>

\* await newMessage.populate(...) resolves, then the three emits; or it
\* rejects and the catch block reports the error
SendPopulate(k, storeUp) ==
  /\ calls[k].op = "send_message"
  /\ calls[k].pc = "populate"
  /\ IF ~storeUp
     THEN /\ out' = socketEmit(calls[k].sock, "error", calls[k].actor,
                               "SEND_FAILED", 0)
          /\ Finish(k, "SEND_FAILED", calls[k].n)
     ELSE /\ out' = socketEmit(calls[k].sock, "message_sent", calls[k].actor,
                               "", calls[k].n)
                    \cup emitToUser(calls[k].partner, "new_message",
                                    calls[k].actor, "", calls[k].n)
                    \cup emitToUser(calls[k].partner, "notification",
                                    calls[k].actor, "new_message",
                                    PreviewLength(calls[k].p.raw))
          /\ Finish(k, "ok", calls[k].n)
  /\ UNCHANGED <<accounts, signups, trainerId, sockVars, messages, nextId,
                 now, docs, result>>

(***************************************************************************)
(* handleMarkAsRead step by step: updateMany is atomic per document, not   *)
(* over the set of documents it matches                                    *)
(***************************************************************************)
\* a mutant of the per-document write that does not re-apply the filter
ModifiesNoRecheck(m) == TRUE

\* whether updateMany modifies a document it scanned: the filter
\* {isRead: false} is applied again when the document is written
Modifies(m) == ~m.isRead

\* socket.on('mark_as_read'): the handler starts; updateMany begins its scan
MarkStart(k, s, senderId) ==
  /\ calls[k].pc = "idle"
  /\ sockState[s] = "active"
  /\ calls' = [calls EXCEPT ![k] =
                 [IdleCall EXCEPT
                    !.pc = "updateMany", !.op = "mark_as_read", !.sock = s,
                    !.actor = sockUser[s], !.partner = senderId,
                    !.todo = {m.id : m \in UnreadFrom(senderId, sockUser[s])}]]
  /\ last' = Op("await", s, sockUser[s], senderId, "updateMany", 0)
  /\ out' = {}
  /\ UNCHANGED <<accounts, signups, trainerId, sockVars, messages, nextId,
                 now, docs, result>>

\* updateMany reaches one of the documents it matched
MarkDoc(k, i) ==
  /\ calls[k].op = "mark_as_read"
  /\ calls[k].pc = "updateMany"
  /\ i \in calls[k].todo
  /\ LET hit == {m \in messages : m.id = i /\ Modifies(m)} IN
     /\ messages' = {IF m \in hit
                     THEN [m EXCEPT !.isRead = TRUE, !.readAt = now]
                     ELSE m : m \in messages}
     /\ calls' = [calls EXCEPT ![k].todo = calls[k].todo \ {i},
                               ![k].n = calls[k].n + Cardinality(hit)]
  /\ last' = Op("await", calls[k].sock, calls[k].actor, calls[k].partner,
                "updateMany", 0)
  /\ out' = {}
  /\ UNCHANGED <<accounts, signups, trainerId, sockVars, nextId, now, docs,
                 result>>

\* updateMany resolves; emitToUser(senderId, 'messages_read', {count})
MarkEmit(k) ==
  /\ calls[k].op = "mark_as_read"
  /\ calls[k].pc = "updateMany"
  /\ calls[k].todo = {}
  /\ out' = emitToUser(calls[k].partner, "messages_read", calls[k].actor, "",
                       calls[k].n)
  /\ Finish(k, "ok", calls[k].n)
  /\ UNCHANGED <<accounts, signups, trainerId, sockVars, messages, nextId,
                 now, docs, result>>

\* the invocation is over; its slot serves the next event
Return(k) ==
  /\ calls[k].pc = "done"
  /\ calls' = [calls EXCEPT ![k] = IdleCall]
  /\ UNCHANGED <<accounts, signups, trainerId, sockVars, messages, nextId,
                 now, docs, result, out, last>>

(***************************************************************************)
(* Accounts: POST /api/auth/register and PUT /api/auth/me                  *)
(***************************************************************************)
\* emails as clients type them: the email of the existing user c1, and a new
\* address in two spellings
Emails == {"c1", "ana@x.es", "Ana@X.es"}

\* userSchema.email {lowercase: true, trim: true}: the setter, which mongoose
\* applies to documents and to query filters alike
Normalize(e) == IF e = "Ana@X.es" THEN "ana@x.es" ELSE e

\* the number of user documents that hold an email
WithEmail(e) ==
  Cardinality({u \in Users : accounts[u].email = e})
    + Cardinality({d \in signups : d.email = e})

\* the unique index on email lets the insert through
UniqueIndexAllows(e) == WithEmail(e) = 0

\* the _id of the n-th user document inserted by register
SignupId(n) == <<"n1", "n2", "n3">>[n]

\* validate(registerSchema) passed; register starts, await User.findOne;
\* trainer is the trainerId of the body (None when the body has none) and is
\* kept in todo until the trainer's client list has been updated
RegisterStart(k, email, trainer) ==
  /\ calls[k].pc = "idle"
  /\ calls' = [calls EXCEPT ![k] =
                 [IdleCall EXCEPT !.pc = "findOne", !.op = "register",
                                  !.partner = email,
                                  !.todo = IF trainer = None THEN {}
                                           ELSE {trainer}]]
  /\ last' = Op("await", None, None, email, "findOne", 0)
  /\ out' = {}
  /\ UNCHANGED <<accounts, signups, trainerId, sockVars, messages, nextId,
                 now, docs, result>>

\* User.findOne({email}) resolves
RegisterFindOne(k) ==
  /\ calls[k].op = "register"
  /\ calls[k].pc = "findOne"
  /\ IF WithEmail(Normalize(calls[k].partner)) # 0
     THEN Finish(k, "EMAIL_ALREADY_EXISTS", 0)
     ELSE LET pc == IF calls[k].todo = {} THEN "save" ELSE "findById" IN
          /\ calls' = [calls EXCEPT ![k].pc = pc]
          /\ last' = Op("await", None, None, calls[k].partner, pc, 0)
  /\ out' = {}
  /\ UNCHANGED <<accounts, signups, trainerId, sockVars, messages, nextId,
                 now, docs, result>>

\* User.findById(userData.trainerId) resolves: the trainer must exist and
\* have the role TRAINER
RegisterFindById(k) ==
  /\ calls[k].op = "register"
  /\ calls[k].pc = "findById"
  /\ \E t \in calls[k].todo :
       IF t \notin Users THEN Finish(k, "TRAINER_NOT_FOUND", 0)
       ELSE IF role(t) # TRAINER THEN Finish(k, "NOT_A_TRAINER", 0)
       ELSE /\ calls' = [calls EXCEPT ![k].pc = "save"]
            /\ last' = Op("await", None, None, calls[k].partner, "save", 0)
  /\ out' = {}
  /\ UNCHANGED <<accounts, signups, trainerId, sockVars, messages, nextId,
                 now, docs, result>>

\* newUser.save() resolves or rejects with the duplicate key error of the
\* unique index, which the catch block answers with 500; without a trainerId
\* 201 is answered, with one the trainer's client list is updated first
RegisterSave(k) ==
  /\ calls[k].op = "register"
  /\ calls[k].pc = "save"
  /\ LET e == Normalize(calls[k].partner)
         id == Cardinality(signups) + 1
     IN
     IF ~UniqueIndexAllows(e)
     THEN /\ Finish(k, "INTERNAL_SERVER_ERROR", 0)
          /\ UNCHANGED signups
     ELSE /\ signups' = signups \cup
                          {[id |-> id,
                            email |-> e,
                            trainerId |-> IF calls[k].todo = {} THEN None
                                          ELSE CHOOSE t \in calls[k].todo :
                                                 TRUE]}
          /\ IF calls[k].todo = {}
             THEN Finish(k, "ok", id)
             ELSE /\ calls' = [calls EXCEPT ![k].pc = "addToSet",
                                            ![k].n = id]
                  /\ last' = Op("await", None, None, calls[k].partner,
                                "addToSet", 0)
  /\ out' = {}
  /\ UNCHANGED <<accounts, trainerId, sockVars, messages, nextId, now, docs,
                 result>>

\* User.findByIdAndUpdate(trainerId, {$addToSet: {clients: newUser._id}})
\* resolves; 201 is answered
RegisterAddToSet(k) ==
  /\ calls[k].op = "register"
  /\ calls[k].pc = "addToSet"
  /\ accounts' = [u \in Users |->
                    IF u \in calls[k].todo
                    THEN [accounts[u] EXCEPT
                            !.clients = @ \cup {SignupId(calls[k].n)}]
                    ELSE accounts[u]]
  /\ Finish(k, "ok", calls[k].n)
  /\ out' = {}
  /\ UNCHANGED <<signups, trainerId, sockVars, messages, nextId, now, docs,
                 result>>

\* a field the request body does not carry
Absent == "absent"

\* const restrictedFields = [...] of updateMe
restrictedFields ==
  {"email", "password", "role", "trainerId", "clients", "isActive"}

\* Request bodies of PUT /me: a firstName (absent, valid, or too short), a
\* set of restricted fields given new values at the top level, and whether
\* the body also carries an update operator ({"$set": {"role": ...}}).
UpdateBodies ==
  [firstName : {Absent, "Eva", "E"},
   restricted : {{}, restrictedFields} \cup {{f} : f \in restrictedFields},
   operator : BOOLEAN]

\* a mutant of validate() without stripUnknown: unknown keys stay in req.body
KeepUnknown(body) == body

\* validate(updateUserSchema) with stripUnknown: true: req.body = value keeps
\* only the keys the schema names
StripUnknown(body) == [body EXCEPT !.restricted = {}, !.operator = FALSE]

\* updateUserSchema: firstName, when present, has 2 to 50 characters
updateUserSchema(body) == body.firstName # "E"

\* restrictedFields.forEach(field => delete updateData[field])
DeleteRestricted(body) ==
  [body EXCEPT !.restricted = body.restricted \ restrictedFields]

\* the document after findByIdAndUpdate(id, updateData): every key of
\* updateData is $set, and an update operator it carries is applied as such
Updated(doc, data) ==
  [email |-> IF "email" \in data.restricted THEN "evil@x.es" ELSE doc.email,
   role |-> IF "role" \in data.restricted \/ data.operator
            THEN TRAINER ELSE doc.role,
   password |-> IF "password" \in data.restricted
                THEN "plain" ELSE doc.password,
   clients |-> IF "clients" \in data.restricted THEN Users ELSE doc.clients,
   isActive |-> IF "isActive" \in data.restricted
                THEN FALSE ELSE doc.isActive,
   firstName |-> IF data.firstName # Absent
                 THEN data.firstName ELSE doc.firstName]

\* PUT /api/auth/me: authenticate, validate(updateUserSchema), updateMe
UpdateMe(actor, body) ==
  /\ IF ~updateUserSchema(body)
     THEN /\ last' = Op("update_me", None, actor, None, "VALIDATION_ERROR",
                        Cardinality(body.restricted))
          /\ UNCHANGED <<accounts, trainerId>>
     ELSE LET updateData == DeleteRestricted(StripUnknown(body)) IN
          /\ accounts' = [accounts EXCEPT
                            ![actor] = Updated(accounts[actor], updateData)]
          /\ trainerId' = IF "trainerId" \in updateData.restricted
                          THEN [trainerId EXCEPT ![actor] = "t1"]
                          ELSE trainerId
          /\ last' = Op("update_me", None, actor, None, "ok",
                        Cardinality(body.restricted))
  /\ out' = {}
  /\ UNCHANGED <<calls, signups, sockVars, messages, nextId, now, docs,
                 result>>

(***************************************************************************)
(* Specification                                                           *)
(***************************************************************************)
Init ==
  /\ calls = [k \in Calls |-> IdleCall]
  /\ accounts = [u \in Users |->
                   [email |-> u,
                    role |-> IF u = "t1" THEN TRAINER ELSE USER,
                    password |-> "hash",
                    clients |-> IF u = "t1" THEN {"c1"} ELSE {},
                    isActive |-> TRUE,
                    firstName |-> "Ana"]]
  /\ signups = {}
  /\ trainerId = [u \in Users |-> IF u = "c1" THEN "t1" ELSE None]
  /\ sockState = [s \in Sockets |-> "free"]
  /\ sockUser = [s \in Sockets |-> None]
  /\ connectedUsers = [u \in Users |-> None]
  /\ rooms = {}
  /\ messages = {}
  /\ nextId = 1
  /\ now = 0
  /\ docs = {}
  /\ result = <<>>
  /\ out = {}
  /\ last = Op("init", None, None, None, "ok", 0)

(***************************************************************************)
(* Presence: connections, the registry and typing                          *)
(***************************************************************************)
NextPresence ==
  \/ \E tok \in Tokens : Open(Sockets, tok)
  \/ \E s \in Sockets : Disconnect(s)
  \/ \E s \in Sockets, r \in Users, b \in BOOLEAN : Typing(s, r, b)

SpecPresence == Init /\ [][NextPresence]_vars

\* C1: for a user who already has a live connection, a further connection,
\* or the close of a connection that is not the user's last one, broadcasts
\* no user_status event.
C1_StatusOnlyOnPresenceChange ==
  /\ (last.op = "connect" /\ last.actor \in Users
      /\ LiveConns(last.actor) \ {last.sock} # {})
        => ~\E e \in out : e.ev = "user_status"
  /\ (last.op = "disconnect" /\ LiveConns(last.actor) # {})
        => ~\E e \in out : e.ev = "user_status"

\* C2: isOnline(userId) is true exactly when the user has at least one live
\* authenticated connection.
C2_OnlineIffLiveConnection ==
  \A u \in Users : isUserOnline(u) <=> LiveConns(u) # {}

\* C27: every socket id the connectedUsers registry holds is the id of a
\* connection that is live and was authenticated as the user it is filed
\* under, after any sequence of connects and disconnects; the registry is
\* empty when the process starts.
C27_RegistryHoldsLiveSockets ==
  /\ \A u \in Users :
       connectedUsers[u] # None
         => /\ sockState[connectedUsers[u]] = "active"
            /\ sockUser[connectedUsers[u]] = u
  /\ last.op = "init" => \A u \in Users : connectedUsers[u] = None

\* a connection of a user with two connections has just closed while the
\* registry holds the live connection of another user
C27_Witness ==
  /\ last.op = "disconnect"
  /\ LiveConns(last.actor) # {}
  /\ \E u \in Users \ {last.actor} :
       connectedUsers[u] # None /\ connectedUsers[u] \in LiveConns(u)

\* C30: user_typing reaches a user only when the user who sent typing_start
\* or typing_stop has the trainer-client Relationship with that user; typing
\* at an unrelated (other) user delivers nothing; no typing action changes
\* the stored messages.
C30_TypingOnlyToPartner ==
  [][last'.op \in {"typing_start", "typing_stop"}
       => /\ \A e \in out' :
               (e.ev = "user_typing" /\ last'.actor # last'.partner)
                 => Linked(last'.actor, last'.partner)
          /\ messages' = messages]_vars

(***************************************************************************)
(* The gateway: connections and the socket actions on the store            *)
(***************************************************************************)
NextGateway ==
  \/ \E tok \in ValidTokens : Open(Sockets, tok)
  \/ \E s \in Sockets : Disconnect(s)
  \/ \E s \in Sockets, r \in Users, p \in Payloads : SocketSendMessage(s, r, p)
  \/ \E s \in Sockets, u \in Users : SocketMarkAsRead(s, u)

SpecGateway == Init /\ [][NextGateway]_vars

\* C3: on a successful send_message, new_message is pushed to every
\* connection of the receiver that is live at that moment.
C3_NewMessageToEveryLiveConnection ==
  (last.op = "send_message" /\ last.res = "ok")
    => \A s \in LiveConns(last.partner) :
         \E e \in out : e.ev = "new_message" /\ e.to = s

(***************************************************************************)
(* Sends: the socket path and the REST path                                *)
(***************************************************************************)
NextSend ==
  \/ \E tok \in ValidTokens : Open(Sockets, tok)
  \/ \E s \in Sockets : Disconnect(s)
  \/ \E s \in Sockets, r \in Users, p \in Payloads : SocketSendMessage(s, r, p)
  \/ \E a \in Users, b \in Users, p \in Payloads : RestSendMessage(a, b, p)

SpecSend == Init /\ [][NextSend]_vars

NextHandshake ==
  \/ \E tok \in Tokens : Open({"s1"}, tok)
  \/ \E s \in Sockets : Disconnect(s)
  \/ \E s \in Sockets, r \in Users, p \in Payloads : SocketSendMessage(s, r, p)
  \/ \E s \in Sockets, u \in Users : SocketMarkAsRead(s, u)
  \/ \E s \in Sockets, r \in Users, b \in BOOLEAN : Typing(s, r, b)
  \/ \E s \in Sockets, p \in Users : JoinConversation(s, p)
  \/ \E s \in Sockets, p \in Users : LeaveConversation(s, p)

SpecHandshake == Init /\ [][NextHandshake]_vars

ClientOps ==
  {"send_message", "mark_as_read", "typing_start", "typing_stop",
   "join_conversation", "leave_conversation"}

\* C5: a connection whose token is missing, invalid or expired is refused: it
\* is not Active, is not in the presence registry, causes no user_status
\* broadcast, and no client action is ever processed on a connection that is
\* not Active and authenticated.
C5_BadTokenRefused ==
  /\ (last.op = "connect" /\ last.res \in {"none", "invalid", "expired"})
       => /\ sockState[last.sock] = "refused"
          /\ \A u \in Users : connectedUsers[u] # last.sock
          /\ out = {}
  /\ \A s \in Sockets :
       sockState[s] = "refused"
         => /\ sockUser[s] = None
            /\ \A u \in Users : connectedUsers[u] # s
            /\ \A r \in rooms : r[1] # s
  /\ last.op \in ClientOps
       => /\ sockState[last.sock] = "active"
          /\ sockUser[last.sock] = last.actor
          /\ last.actor \in Users

\* a connection presenting an expired token has just been refused, after
\* earlier connections exchanged messages
C5_Witness ==
  /\ last.op = "connect"
  /\ last.res = "expired"
  /\ sockState[last.sock] = "refused"
  /\ messages # {}

(***************************************************************************)
(* Appends: every path that saves a ChatMessage                            *)
(***************************************************************************)
NextAppend ==
  \/ \E tok \in ValidTokens : Open({"s1"}, tok)
  \/ \E s \in Sockets : Disconnect(s)
  \/ \E s \in Sockets, r \in Users, p \in Payloads : SocketSendMessage(s, r, p)
  \/ \E a \in Users, b \in Users, p \in Payloads : RestSendMessage(a, b, p)
  \/ \E a \in Users, b \in Users, p \in Payloads : Create(a, b, p)

SpecAppend == Init /\ [][NextAppend]_vars

SaveErrors ==
  {"ValidationError", "TEXT_WITHOUT_CONTENT", "NO_ATTACHMENTS", "SELF_MESSAGE"}

\* C6: every attempted append with senderId = receiverId fails with a
\* validation error and creates no row, so no stored message has senderId
\* equal to receiverId after any sequence of socket sends, REST sends and saves.
C6_NoSelfMessage ==
  /\ \A m \in messages : m.senderId # m.receiverId
  /\ (last.op \in {"create", "rest_send", "send_message"}
      /\ last.actor = last.partner)
       => (last.res # "ok" /\ last.n = 0)
  /\ (last.op = "create" /\ last.actor = last.partner)
       => last.res \in SaveErrors

\* a save of an otherwise valid message addressed to its own sender has just
\* been refused by the hook, with messages already in the store
C6_Witness ==
  /\ last.op = "create"
  /\ last.actor = last.partner
  /\ last.res = "SELF_MESSAGE"
  /\ messages # {}

(***************************************************************************)
(* Read state: every operation that marks messages as read                 *)
(***************************************************************************)
\* a trainer and the client assigned to that trainer
Pair == {"t1", "c1"}

NextRead ==
  \/ \E tok \in {k \in ValidTokens : k.sub \in Pair} : Open({"s1"}, tok)
  \/ \E s \in Sockets : Disconnect(s)
  \/ \E a \in Pair, b \in Pair : RestSendMessage(a, b, TextOk)
  \/ \E s \in Sockets, u \in Pair : SocketMarkAsRead(s, u)
  \/ \E a \in Pair, b \in Pair : RestMarkAsRead(a, b)
  \/ \E a \in Pair, b \in Pair : RestGetMessages(a, b, 1, DefaultLimit)
  \/ \E a \in Pair, b \in Pair : StaticMarkAsRead(a, b)
  \/ \E i \in 1..MaxMsgs : LoadDoc(i)
  \/ \E d \in docs : DocMarkAsRead(d)
  \/ Tick

SpecRead == Init /\ [][NextRead]_vars

\* C7: once isRead is true no operation sets it back to false, and readAt is
\* set exactly once, at that transition, and never changes afterwards.
C7_ReadOnce ==
  [][\A m \in messages : \A m2 \in messages' :
       m2.id = m.id =>
         /\ m.isRead => (m2.isRead /\ m2.readAt = m.readAt)
         /\ (~m.isRead /\ m2.isRead) => m2.readAt = now
         /\ m2.isRead <=> m2.readAt # NullDate]_vars

NextMark ==
  \/ \E a \in Users, b \in Users : RestSendMessage(a, b, TextOk)
  \/ \E a \in Users, b \in Users : RestMarkAsRead(a, b)
  \/ \E a \in Users, b \in Users : StaticMarkAsRead(a, b)
  \/ Tick

SpecMark == Init /\ [][NextMark]_vars

\* C8: markRead(a, b) reports the number N of messages from a to b it moved
\* to read; called again with no new message from a to b in between it
\* reports 0 and changes no message.
C8_MarkReadTwice ==
  [][\A a \in Users, b \in Users :
       /\ (RestMarkAsRead(b, a) /\ last'.res = "ok")
            => /\ last'.n = Cardinality({m \in messages :
                              m.senderId = a /\ m.receiverId = b /\ ~m.isRead})
               /\ \A m \in messages' :
                    (m.senderId = a /\ m.receiverId = b) => m.isRead
       /\ (/\ last.op \in {"rest_mark", "markAsRead"}
           /\ last.res = "ok" /\ last.partner = a /\ last.actor = b
           /\ \/ (RestMarkAsRead(b, a) /\ last'.res = "ok")
              \/ StaticMarkAsRead(a, b))
            => (last'.n = 0 /\ messages' = messages)]_vars

\* a REST markAsRead that found every message of the partner already read,
\* at a later time than they were read
C8_Witness ==
  /\ last.op = "rest_mark"
  /\ last.res = "ok"
  /\ last.n = 0
  /\ \E m \in messages : /\ m.senderId = last.partner
                         /\ m.receiverId = last.actor
                         /\ m.isRead
                         /\ m.readAt < now

(***************************************************************************)
(* Conversation history                                                    *)
(***************************************************************************)
NextList ==
  \/ \E a \in Users, b \in Users : RestSendMessage(a, b, TextOk)
  \/ \E a \in Users, b \in Users, pg \in Pages, l \in Limits :
        RestGetMessages(a, b, pg, l)
  \/ \E a \in Users, b \in Users, l \in Limits : FindConversation(a, b, l, 0)
  \/ Tick

SpecList == Init /\ [][NextList]_vars

\* C9: listConversation returns any two messages of a pair in reverse
\* insertion order, also when both have the same createdAt.
C9_ReverseInsertionOrder ==
  last.op \in {"rest_get", "findConversation"}
    => \A i, j \in 1..Len(result) : i < j => result[i] > result[j]

(***************************************************************************)
(* Deletion                                                                *)
(***************************************************************************)
NextDelete ==
  \/ \E a \in Users, b \in Users : RestSendMessage(a, b, TextOk)
  \/ \E a \in Users, i \in 1..(MaxMsgs + 1) : RestDeleteMessage(a, i)

SpecDelete == Init /\ [][NextDelete]_vars

\* C10: deleteMessage by a user other than the sender answers Forbidden, for
\* an id that does not exist NotFound, and in both cases the store is
\* unchanged; a message leaves the store only by its sender's delete.
C10_DeleteOwnership ==
  [][/\ \A a \in Users, i \in 1..(MaxMsgs + 1) :
          RestDeleteMessage(a, i) =>
            LET found == {m \in messages : m.id = i} IN
            /\ found = {}
                 => (last'.res = "MESSAGE_NOT_FOUND" /\ messages' = messages)
            /\ (found # {} /\ \A m \in found : m.senderId # a)
                 => (last'.res = "INSUFFICIENT_PERMISSIONS"
                     /\ messages' = messages)
            /\ (\E m \in found : m.senderId = a)
                 => (last'.res = "ok" /\ messages' = messages \ found)
     /\ \A m \in messages :
          m \notin messages'
            => /\ last'.op = "rest_delete"
               /\ last'.res = "ok"
               /\ last'.actor = m.senderId
               /\ last'.n = m.id]_vars

\* the receiver of a message has just been refused its deletion and the
\* message is still stored
C10_Witness ==
  /\ last.op = "rest_delete"
  /\ last.res = "INSUFFICIENT_PERMISSIONS"
  /\ \E m \in messages : m.id = last.n /\ m.receiverId = last.actor

(***************************************************************************)
(* Concurrent sends: two handleSendMessage invocations interleaved         *)
(***************************************************************************)
NextConcurrentSend ==
  \/ \E tok \in {x \in ValidTokens : x.sub \in Pair} : Open({"s1", "s2"}, tok)
  \/ \E k \in Calls, s \in Sockets, r \in Pair,
        p \in {TextOk, Payload("text", 2, 0, 0)} : SendStart(k, s, r, p)
  \/ \E k \in Calls : SendCanChat(k)
  \/ \E k \in Calls : SendSave(k, TRUE)
  \/ \E k \in Calls : SendPopulate(k, TRUE)
  \/ \E k \in Calls : Return(k)
  \/ Tick

SpecConcurrentSend == Init /\ [][NextConcurrentSend]_vars

\* C11: under any interleaving of concurrent send_message calls, every
\* authorized and valid call persists exactly one message of its own: none is
\* lost, none is duplicated, and the store holds one document per save.
C11_OneMessagePerCall ==
  /\ \A k \in Calls :
       (calls[k].op = "send_message" /\ calls[k].pc \in {"populate", "done"})
         => /\ (canUsersChat(calls[k].actor, calls[k].partner)
                /\ SaveOk(calls[k].actor, calls[k].partner, calls[k].p))
                 => calls[k].n # 0
            /\ calls[k].n # 0
                 => /\ Cardinality({m \in messages : m.id = calls[k].n}) = 1
                    /\ \A m \in messages :
                         m.id = calls[k].n
                           => /\ m.senderId = calls[k].actor
                              /\ m.receiverId = calls[k].partner
  /\ \A k1, k2 \in Calls :
       (k1 # k2 /\ calls[k1].n # 0 /\ calls[k2].n # 0)
         => calls[k1].n # calls[k2].n
  /\ Cardinality(messages) = nextId - 1
  /\ \A m1, m2 \in messages : m1.id = m2.id => m1 = m2

\* two calls of the same sender to the same receiver were in flight together
\* and both are done, the one that started saving last having finished first
C11_Witness ==
  /\ calls["k1"].pc = "done" /\ calls["k2"].pc = "done"
  /\ calls["k1"].res = "ok" /\ calls["k2"].res = "ok"
  /\ calls["k1"].actor = calls["k2"].actor
  /\ calls["k1"].partner = calls["k2"].partner
  /\ calls["k1"].n < calls["k2"].n
  /\ last.n = calls["k1"].n
  /\ Cardinality(messages) = 2

(***************************************************************************)
(* Sends against a store that may fail at any of its awaits                *)
(***************************************************************************)
NextSendFault ==
  \/ \E tok \in ValidTokens : Open({"s1", "s2"}, tok)
  \/ \E k \in {"k1"}, s \in Sockets, r \in Users, p \in Payloads :
        SendStart(k, s, r, p)
  \/ \E k \in Calls : SendCanChat(k)
  \/ \E k \in Calls, storeUp \in BOOLEAN : SendSave(k, storeUp)
  \/ \E k \in Calls, storeUp \in BOOLEAN : SendPopulate(k, storeUp)
  \/ \E k \in Calls : Return(k)

SpecSendFault == Init /\ [][NextSendFault]_vars

\* C12: a send_message call that ends by reporting `error` to the sender has
\* persisted no message and pushed nothing to anyone but the sender's socket.
C12_FailedSendLeavesNoTrace ==
  (last.op = "send_message" /\ last.res # "ok")
    => /\ ~\E m \in messages : m.id = last.n /\ m.senderId = last.actor
       /\ \A e \in out : e.to = last.sock /\ e.ev = "error"
       /\ out # {}

(***************************************************************************)
(* Authorization of mark_as_read (checked under SpecGateway)               *)
(***************************************************************************)
\* C13: a mark_as_read naming a senderId with whom the actor has no
\* trainer-client Relationship marks nothing, reports an error to the actor
\* and emits no messages_read event to the named user.
C13_MarkAsReadAuthorized ==
  (/\ last.op = "mark_as_read"
   /\ last.actor # last.partner
   /\ ~Linked(last.actor, last.partner))
    => /\ last.n = 0
       /\ \E e \in out : e.ev = "error" /\ e.to = last.sock
       /\ ~\E e \in out : e.ev = "messages_read"

(***************************************************************************)
(* Concurrent mark_as_read: two invocations for the same partner           *)
(***************************************************************************)
NextConcurrentMark ==
  \/ \E tok \in {x \in ValidTokens : x.sub \in Pair} : Open({"s1", "s2"}, tok)
  \/ \E b \in Pair : RestSendMessage("c1", b, TextOk)
  \/ \E k \in Calls, s \in Sockets, u \in Pair : MarkStart(k, s, u)
  \/ \E k \in Calls, i \in 1..MaxMsgs : MarkDoc(k, i)
  \/ \E k \in Calls : MarkEmit(k)
  \/ Tick

SpecConcurrentMark == Init /\ [][NextConcurrentMark]_vars

\* C14: the count carried by messages_read is the number of messages the call
\* moved from unread to read; the counts of concurrent mark_as_read calls sum
\* to the number of messages actually moved, none being counted twice.
C14_CountsSumToMoved ==
  /\ (last.op = "mark_as_read" /\ last.res = "ok")
       => \A e \in out : e.ev = "messages_read" /\ e.n = last.n
  /\ calls["k1"].n + calls["k2"].n = Cardinality({m \in messages : m.isRead})
  /\ \A k \in Calls :
       calls[k].n <= Cardinality({m \in messages :
                                    /\ m.isRead
                                    /\ m.senderId = calls[k].partner
                                    /\ m.receiverId = calls[k].actor})

\* two mark_as_read calls of the same reader for the same partner ran
\* interleaved from two sockets over the same two unread messages, and each
\* moved one of them
C14_Witness ==
  /\ calls["k1"].pc = "done" /\ calls["k2"].pc = "done"
  /\ calls["k1"].actor = calls["k2"].actor
  /\ calls["k1"].partner = calls["k2"].partner
  /\ calls["k1"].sock # calls["k2"].sock
  /\ calls["k1"].n = 1 /\ calls["k2"].n = 1
  /\ last.op = "mark_as_read"

(***************************************************************************)
(* Body and attachments: what append accepts                               *)
(***************************************************************************)
\* payloads on both sides of every limit: empty, blank, short, 2000 and 2001
\* characters, with and without an attachment
Bodies ==
  {<<0, 0>>, <<2, 0>>, <<2, 2>>, <<MaxMessageLength, MaxMessageLength>>,
   <<MaxMessageLength + 1, MaxMessageLength + 1>>}

AllPayloads ==
  {Payload(ty, b[1], b[2], att) :
     ty \in {"text", "image", "file"}, b \in Bodies, att \in {0, 1}}

NextPayload ==
  \/ \E tok \in {x \in ValidTokens : x.sub \in Pair} : Open({"s1"}, tok)
  \/ \E s \in Sockets, r \in Pair, p \in AllPayloads :
        SocketSendMessage(s, r, p)
  \/ \E a \in Pair, b \in Pair, p \in AllPayloads : RestSendMessage(a, b, p)

SpecPayload == Init /\ [][NextPayload]_vars

\* the body/attachment rule of the specification: a text message needs a
\* body of 1..2000 characters; an image or file message needs attachments
\* and may then have an empty body
BodyRule(p) ==
  IF p.messageType = "text"
  THEN p.trimmed >= 1 /\ p.raw <= MaxMessageLength
  ELSE p.attachments >= 1 /\ p.raw <= MaxMessageLength

\* C15: on the socket path and on the REST path, a send between a trainer
\* and an assigned client is accepted exactly when the body/attachment rule
\* holds, and a rejected one persists nothing.
C15_AcceptsExactlyTheRule ==
  [][\A a \in Pair, b \in Pair, p \in AllPayloads :
       Linked(a, b) =>
         /\ RestSendMessage(a, b, p)
              => /\ (last'.res = "ok") <=> BodyRule(p)
                 /\ last'.res # "ok" => messages' = messages
         /\ \A s \in Sockets :
              (SocketSendMessage(s, b, p) /\ sockUser[s] = a)
                => /\ (last'.res = "ok") <=> BodyRule(p)
                   /\ last'.res # "ok" => messages' = messages]_vars

(***************************************************************************)
(* The notification preview                                                *)
(***************************************************************************)
\* text bodies around the cut: short, exactly 50, 51 and the longest allowed
PreviewPayloads ==
  {Payload("text", n, n, 0) :
     n \in {2, PreviewCut, PreviewCut + 1, MaxMessageLength}}

NextPreview ==
  \/ \E tok \in {x \in ValidTokens : x.sub \in Pair} : Open({"s1", "s2"}, tok)
  \/ \E s \in Sockets : Disconnect(s)
  \/ \E s \in Sockets, r \in Pair, p \in PreviewPayloads :
        SocketSendMessage(s, r, p)

SpecPreview == Init /\ [][NextPreview]_vars

\* C16: the body preview carried by a notification event is never longer
\* than 50 characters.
C16_PreviewAtMost50 ==
  \A e \in out : e.ev = "notification" => e.n <= PreviewCut

(***************************************************************************)
(* Queries: the operations that only read the store                        *)
(***************************************************************************)
NextQuery ==
  \/ \E a \in Pair, b \in Pair : RestSendMessage(a, b, TextOk)
  \/ \E a \in Pair, b \in Pair : RestGetMessages(a, b, 1, DefaultLimit)
  \/ \E a \in Pair, b \in Pair, q \in {"", "hola"}, hit \in BOOLEAN :
        RestSearchMessages(a, b, q, hit)
  \/ \E a \in Pair : RestGetUnreadCount(a)
  \/ \E a \in Pair : RestGetConversations(a, ConversationsLimit)
  \/ \E a \in Pair, b \in Pair : FindConversation(a, b, DefaultLimit, 0)
  \/ Tick

SpecQuery == Init /\ [][NextQuery]_vars

QueryOps ==
  {"rest_get", "rest_search", "rest_unread", "rest_conversations",
   "findConversation"}

\* C17: listing the history of a conversation, searching it, counting unread
\* messages and listing recent conversations leave every field of every
\* stored message unchanged, isRead and readAt included.
C17_QueriesMutateNothing ==
  [][last'.op \in QueryOps => messages' = messages]_vars

(***************************************************************************)
(* Presence transitions (checked under SpecPresence)                       *)
(***************************************************************************)
StatusEvents == {e \in out : e.ev = "user_status"}

\* C18: when a user with no live connection connects and authenticates,
\* exactly one user_status online event is broadcast; when a user's last
\* live connection disconnects, exactly one user_status offline event is.
C18_OneStatusPerTransition ==
  /\ (last.op = "connect" /\ last.actor \in Users
      /\ LiveConns(last.actor) = {last.sock})
       => /\ Cardinality(StatusEvents) = 1
          /\ \A e \in StatusEvents :
               e.about = last.actor /\ e.tag = "online" /\ e.to = "ALL"
  /\ (last.op = "disconnect" /\ LiveConns(last.actor) = {})
       => /\ Cardinality(StatusEvents) = 1
          /\ \A e \in StatusEvents :
               e.about = last.actor /\ e.tag = "offline" /\ e.to = "ALL"

\* the last connection of a user has just closed while the connection on
\* s1 stays live
C18_Witness ==
  /\ last.op = "disconnect"
  /\ LiveConns(last.actor) = {}
  /\ last.sock # "s1"
  /\ sockState["s1"] = "active"
  /\ \E e \in out : e.ev = "user_status" /\ e.tag = "offline"

(***************************************************************************)
(* Accounts: concurrent registrations                                      *)
(***************************************************************************)
NextRegister ==
  \/ \E k \in Calls, e \in Emails : RegisterStart(k, e, None)
  \/ \E k \in Calls : RegisterFindOne(k)
  \/ \E k \in Calls : RegisterSave(k)
  \/ \E k \in Calls : Return(k)

SpecRegister == Init /\ [][NextRegister]_vars

\* C19: at most one user exists per email, a register call for an email that
\* already belongs to a user creates no user, and every rejected duplicate
\* is answered EMAIL_ALREADY_EXISTS, under any interleaving of register calls.
C19_DuplicateEmailRejected ==
  /\ \A e \in Emails : WithEmail(Normalize(e)) <= 1
  /\ (last.op = "register" /\ last.res # "ok")
       => (last.res = "EMAIL_ALREADY_EXISTS" /\ last.n = 0)

(***************************************************************************)
(* Accounts: profile updates                                               *)
(***************************************************************************)
NextProfile ==
  \/ \E a \in Users, b \in UpdateBodies : UpdateMe(a, b)
  \/ Tick

SpecProfile == Init /\ [][NextProfile]_vars

\* C20: PUT /auth/me never changes the caller's email, role, password,
\* trainerId, clients or isActive, whatever the body contains (nor any other
\* user's document); a body whose non-restricted fields are valid succeeds
\* and those fields are applied.
C20_RestrictedFieldsKept ==
  [][\A a \in Users, b \in UpdateBodies :
       UpdateMe(a, b) =>
         /\ accounts'[a].email = accounts[a].email
         /\ accounts'[a].role = accounts[a].role
         /\ accounts'[a].password = accounts[a].password
         /\ accounts'[a].clients = accounts[a].clients
         /\ accounts'[a].isActive = accounts[a].isActive
         /\ trainerId' = trainerId
         /\ \A u \in Users \ {a} : accounts'[u] = accounts[u]
         /\ b.firstName # "E"
              => /\ last'.res = "ok"
                 /\ accounts'[a].firstName =
                      IF b.firstName = Absent
                      THEN accounts[a].firstName ELSE b.firstName]_vars

\* an update whose body carried every restricted field has just succeeded
\* and changed the caller's first name
C20_Witness ==
  /\ last.op = "update_me"
  /\ last.res = "ok"
  /\ last.n = Cardinality(restrictedFields)
  /\ accounts[last.actor].firstName = "Eva"
  /\ accounts[last.actor].role = USER

(***************************************************************************)
(* REST authentication (middleware/auth.ts: authenticate)                  *)
(***************************************************************************)
\* the Authorization header of a request: absent, or "<scheme> <token>";
\* a token of kind "none" after a scheme is the empty string
Headers ==
  {[scheme |-> "absent", tok |-> [kind |-> "none", sub |-> None]]}
  \cup {[scheme |-> sch, tok |-> t] : sch \in {"Bearer", "Basic"}, t \in Tokens}

AuthError(code, status) == [user |-> None, error |-> code, status |-> status]

\* a mutant of authenticate that hands an absent header to the verifier
AuthenticateNoHeaderCheck(h, storeUp) ==
  IF h.scheme \notin {"Bearer", "absent"}
  THEN AuthError("INVALID_TOKEN_FORMAT", 401)
  ELSE LET decoded == verifyToken(h.tok) IN
       IF decoded = Thrown THEN AuthError("INVALID_TOKEN", 401)
       ELSE IF ~storeUp THEN AuthError("INTERNAL_SERVER_ERROR", 500)
       ELSE IF decoded \notin Users THEN AuthError("USER_NOT_FOUND", 401)
       ELSE IF ~accounts[decoded].isActive
       THEN AuthError("ACCOUNT_DISABLED", 401)
       ELSE [user |-> decoded, error |-> None, status |-> 200]

\* authenticate: req.user, or the error response that ends the request;
\* storeUp is whether User.findById answers
authenticate(h, storeUp) ==
  IF h.scheme = "absent" THEN AuthError("NO_TOKEN", 401)
  ELSE IF h.scheme # "Bearer" THEN AuthError("INVALID_TOKEN_FORMAT", 401)
  ELSE IF h.tok.kind = "none" THEN AuthError("NO_TOKEN", 401)
  ELSE LET decoded == verifyToken(h.tok) IN
       IF decoded = Thrown THEN AuthError("INVALID_TOKEN", 401)
       ELSE IF ~storeUp THEN AuthError("INTERNAL_SERVER_ERROR", 500)
       ELSE IF decoded \notin Users THEN AuthError("USER_NOT_FOUND", 401)
       ELSE IF ~accounts[decoded].isActive
       THEN AuthError("ACCOUNT_DISABLED", 401)
       ELSE [user |-> decoded, error |-> None, status |-> 200]

\* the request ends in authenticate: the error response is sent, req.user is
\* never assigned and next() is never called
Unauthenticated(auth) ==
  /\ last' = Op("authenticate", None, None, None, auth.error, auth.status)
  /\ out' = {}
  /\ UNCHANGED <<userVars, trainerId, sockVars, messages, nextId, now, docs,
                 result>>

\* POST /api/chat/:partnerId behind authenticate
AuthSendMessage(h, storeUp, partnerId) ==
  LET auth == authenticate(h, storeUp) IN
  IF auth.error # None THEN Unauthenticated(auth)
  ELSE RestSendMessage(auth.user, partnerId, TextOk)

\* PUT /api/chat/:partnerId/read behind authenticate
AuthMarkAsRead(h, storeUp, partnerId) ==
  LET auth == authenticate(h, storeUp) IN
  IF auth.error # None THEN Unauthenticated(auth)
  ELSE RestMarkAsRead(auth.user, partnerId)

\* DELETE /api/chat/message/:messageId behind authenticate
AuthDeleteMessage(h, storeUp, messageId) ==
  LET auth == authenticate(h, storeUp) IN
  IF auth.error # None THEN Unauthenticated(auth)
  ELSE RestDeleteMessage(auth.user, messageId)

\* the headers the requests of this slice carry
AuthHeaders ==
  {h \in Headers :
     \/ h.scheme = "absent"
     \/ h.scheme = "Bearer" /\ h.tok.sub \in {None, Ghost, "c1", "t1"}
     \/ h.scheme = "Basic" /\ h.tok.kind = "valid" /\ h.tok.sub = "c1"}

NextAuth ==
  \/ \E h \in AuthHeaders, up \in BOOLEAN, b \in Pair :
       AuthSendMessage(h, up, b)
  \/ \E h \in AuthHeaders, up \in BOOLEAN, b \in Pair :
       AuthMarkAsRead(h, up, b)
  \/ \E h \in AuthHeaders, up \in BOOLEAN, id \in 1..MaxMsgs :
       AuthDeleteMessage(h, up, id)

SpecAuth == Init /\ [][NextAuth]_vars

\* the header is absent, or it carries a token that fails verification
NoHeader(h) == h.scheme = "absent"
BadToken(h) == h.scheme = "Bearer" /\ h.tok.kind \in {"invalid", "expired"}

\* C21: a request without an Authorization header is answered 401 NO_TOKEN
\* and one whose token fails verification 401 INVALID_TOKEN; in both cases
\* req.user is not set, the handler behind the middleware does not run and
\* no stored document changes.
C21_UnauthenticatedRejected ==
  [][\A h \in AuthHeaders, up \in BOOLEAN :
       (/\ NoHeader(h) \/ BadToken(h)
        /\ \/ \E b \in Pair : AuthSendMessage(h, up, b)
           \/ \E b \in Pair : AuthMarkAsRead(h, up, b)
           \/ \E id \in 1..MaxMsgs : AuthDeleteMessage(h, up, id))
       => /\ last'.op = "authenticate"
          /\ last'.actor = None
          /\ last'.n = 401
          /\ last'.res = IF NoHeader(h) THEN "NO_TOKEN" ELSE "INVALID_TOKEN"
          /\ UNCHANGED <<accounts, signups, trainerId, messages, nextId,
                         docs>>]_vars

\* a request with a token that fails verification has just been refused
\* while the store holds an unread message the handlers could have changed
C21_Witness ==
  /\ last.op = "authenticate"
  /\ last.res = "INVALID_TOKEN"
  /\ \E m \in messages : ~m.isRead

(***************************************************************************)
(* Trainer-client links (clientController: assignClient, unassignClient),  *)
(* step by step: each await is a point where other handlers run            *)
(***************************************************************************)
\* the request reached the handler of invocation k; authorize(TRAINER) and
\* the handler's own role test answer 403 before any await
LinkStart(k, op, actor, clientId) ==
  /\ calls[k].pc = "idle"
  /\ IF role(actor) # TRAINER
     THEN /\ calls' = [calls EXCEPT ![k] =
                         [IdleCall EXCEPT !.pc = "done", !.op = op,
                                          !.actor = actor,
                                          !.partner = clientId,
                                          !.res = "INSUFFICIENT_PERMISSIONS"]]
          /\ last' = Op(op, None, actor, clientId,
                        "INSUFFICIENT_PERMISSIONS", 0)
     ELSE /\ calls' = [calls EXCEPT ![k] =
                         [IdleCall EXCEPT !.pc = "findById", !.op = op,
                                          !.actor = actor,
                                          !.partner = clientId]]
          /\ last' = Op("await", None, actor, clientId, "findById", 0)
  /\ out' = {}
  /\ UNCHANGED <<accounts, signups, trainerId, sockVars, messages, nextId,
                 now, docs, result>>

\* POST /api/clients/:clientId/assign
AssignStart(k, actor, clientId) == LinkStart(k, "assign", actor, clientId)

\* User.findById(clientId) resolves: the checks on the document just read
AssignFindById(k) ==
  /\ calls[k].op = "assign"
  /\ calls[k].pc = "findById"
  /\ LET clientId == calls[k].partner IN
     IF clientId \notin Users THEN Finish(k, "CLIENT_NOT_FOUND", 0)
     ELSE IF role(clientId) # USER THEN Finish(k, "NOT_A_CLIENT", 0)
     ELSE IF trainerId[clientId] # None
     THEN Finish(k, "CLIENT_ALREADY_ASSIGNED", 0)
     ELSE /\ calls' = [calls EXCEPT ![k].pc = "save"]
          /\ last' = Op("await", None, calls[k].actor, clientId, "save", 0)
  /\ out' = {}
  /\ UNCHANGED <<accounts, signups, trainerId, sockVars, messages, nextId,
                 now, docs, result>>

\* client.save() writes the modified path: $set {trainerId: req.user.id}
AssignSave(k) ==
  /\ calls[k].op = "assign"
  /\ calls[k].pc = "save"
  /\ trainerId' = [trainerId EXCEPT ![calls[k].partner] = calls[k].actor]
  /\ calls' = [calls EXCEPT ![k].pc = "addToSet"]
  /\ last' = Op("await", None, calls[k].actor, calls[k].partner,
                "addToSet", 0)
  /\ out' = {}
  /\ UNCHANGED <<accounts, signups, sockVars, messages, nextId, now, docs,
                 result>>

\* User.findByIdAndUpdate(req.user.id, {$addToSet: {clients: clientId}})
AssignAddToSet(k) ==
  /\ calls[k].op = "assign"
  /\ calls[k].pc = "addToSet"
  /\ accounts' = [accounts EXCEPT ![calls[k].actor].clients =
                                     @ \cup {calls[k].partner}]
  /\ Finish(k, "ok", 0)
  /\ out' = {}
  /\ UNCHANGED <<signups, trainerId, sockVars, messages, nextId, now, docs,
                 result>>

\* DELETE /api/clients/:clientId/assign
UnassignStart(k, actor, clientId) ==
  LinkStart(k, "unassign", actor, clientId)

\* User.findById(clientId) resolves: the checks on the document just read
UnassignFindById(k) ==
  /\ calls[k].op = "unassign"
  /\ calls[k].pc = "findById"
  /\ LET clientId == calls[k].partner IN
     IF clientId \notin Users THEN Finish(k, "CLIENT_NOT_FOUND", 0)
     ELSE IF trainerId[clientId] # calls[k].actor
     THEN Finish(k, "NOT_YOUR_CLIENT", 0)
     ELSE /\ calls' = [calls EXCEPT ![k].pc = "save"]
          /\ last' = Op("await", None, calls[k].actor, clientId, "save", 0)
  /\ out' = {}
  /\ UNCHANGED <<accounts, signups, trainerId, sockVars, messages, nextId,
                 now, docs, result>>

\* client.save() writes the modified path: $set {trainerId: null}
UnassignSave(k) ==
  /\ calls[k].op = "unassign"
  /\ calls[k].pc = "save"
  /\ trainerId' = [trainerId EXCEPT ![calls[k].partner] = None]
  /\ calls' = [calls EXCEPT ![k].pc = "pull"]
  /\ last' = Op("await", None, calls[k].actor, calls[k].partner, "pull", 0)
  /\ out' = {}
  /\ UNCHANGED <<accounts, signups, sockVars, messages, nextId, now, docs,
                 result>>

\* User.findByIdAndUpdate(req.user.id, {$pull: {clients: clientId}}), then
\* the client's plans are deactivated and 200 is answered
UnassignPull(k) ==
  /\ calls[k].op = "unassign"
  /\ calls[k].pc = "pull"
  /\ accounts' = [accounts EXCEPT ![calls[k].actor].clients =
                                     @ \ {calls[k].partner}]
  /\ Finish(k, "ok", 0)
  /\ out' = {}
  /\ UNCHANGED <<signups, trainerId, sockVars, messages, nextId, now, docs,
                 result>>

(***************************************************************************)
(* A send in flight while the trainer unassigns the client                 *)
(***************************************************************************)
NextSendUnassign ==
  \/ \E tok \in {x \in ValidTokens : x.sub \in Pair} : Open({"s1", "s2"}, tok)
  \/ \E s \in Sockets, r \in Pair : SendStart("k1", s, r, TextOk)
  \/ SendCanChat("k1")
  \/ SendSave("k1", TRUE)
  \/ SendPopulate("k1", TRUE)
  \/ \E c \in Users : UnassignStart("k2", "t1", c)
  \/ UnassignFindById("k2")
  \/ UnassignSave("k2")
  \/ UnassignPull("k2")
  \/ \E k \in Calls : Return(k)

SpecSendUnassign == Init /\ [][NextSendUnassign]_vars

\* C22: whenever a send persists a message, the Relationship holds between
\* its sender and its receiver at the moment of the insert, also when an
\* unassignClient runs between the authorization check and the insert.
C22_PersistedOnlyWhileLinked ==
  [][\A m \in messages' \ messages : Linked(m.senderId, m.receiverId)]_vars

(***************************************************************************)
(* A client walking the pages of a conversation                            *)
(***************************************************************************)
\* the ?limit= every request of a walk carries
PageSize == 1

\* the ids a sequence of ids holds
Range(q) == {q[i] : i \in 1..Len(q)}

\* GET /api/chat/:partnerId?page=n&limit=PageSize, n being the page after the
\* last one this client (slot k) was handed; the slot keeps what the client
\* has received so far: n pages, the ids in todo, res = "dup" once an id came
\* twice; the walk is done when a page comes back empty
GetNextPage(k, actor, partnerId) ==
  /\ \/ calls[k].pc = "idle"
     \/ /\ calls[k].op = "pages" /\ calls[k].pc = "paging"
        /\ calls[k].actor = actor /\ calls[k].partner = partnerId
  /\ authorizeChatAccess(actor, partnerId) = "ok"
  /\ LET page == calls[k].n + 1 IN
     \E q \in SortedByCreatedAtDesc(Conversation(actor, partnerId)) :
       LET ids == Ids(Page(q, (page - 1) * PageSize, PageSize)) IN
       /\ result' = ids
       /\ messages' = MarkRead(partnerId, actor)
       /\ last' = Op("rest_get", None, actor, partnerId, "ok",
                     Cardinality(Conversation(actor, partnerId)))
       /\ calls' = [calls EXCEPT ![k] =
                      [IdleCall EXCEPT
                         !.op = "pages", !.actor = actor,
                         !.partner = partnerId, !.n = page,
                         !.pc = IF ids = <<>> THEN "done" ELSE "paging",
                         !.todo = calls[k].todo \cup Range(ids),
                         !.res = IF Range(ids) \cap calls[k].todo # {}
                                 THEN "dup" ELSE calls[k].res]]
  /\ out' = {}
  /\ UNCHANGED <<accounts, signups, trainerId, sockVars, nextId, now, docs>>

\* no client is in the middle of a walk
NoWalk == \A k \in Calls : calls[k].pc = "idle"

NextPages ==
  \/ \E a \in Pair, b \in Pair : NoWalk /\ RestSendMessage(a, b, TextOk)
  \/ \E a \in Pair, b \in Pair : GetNextPage("k1", a, b)
  \/ Return("k1")
  \/ NoWalk /\ Tick

SpecPages == Init /\ [][NextPages]_vars

\* C23: with no append or delete in between, the pages 1, 2, ... of a
\* conversation fetched with one page size until a page is empty hold every
\* message of the pair exactly once, also when messages share a createdAt.
C23_PagesPartitionConversation ==
  \A k \in Calls :
    (calls[k].op = "pages" /\ calls[k].pc = "done")
      => /\ calls[k].res # "dup"
         /\ calls[k].todo =
              {m.id : m \in Conversation(calls[k].actor, calls[k].partner)}

(***************************************************************************)
(* The list of recent conversations                                        *)
(***************************************************************************)
NextConversations ==
  \/ \E a \in Users, b \in Users : RestSendMessage(a, b, TextOk)
  \/ \E a \in Pair, b \in Pair : RestMarkAsRead(a, b)
  \/ \E a \in Users, l \in {1, ConversationsLimit} :
       RestGetConversations(a, l)
  \/ \E a \in Users, l \in {1, ConversationsLimit} :
       GetRecentConversations(a, l)
  \/ Tick

SpecConversations == Init /\ [][NextConversations]_vars

\* the partners a user has exchanged messages with
PartnersOf(u) == {v \in Users : Conversation(u, v) # {}}

\* C24: the list of recent conversations of a user holds at most `limit`
\* entries, one per distinct partner the user has exchanged messages with
\* (all of them when they fit in the limit), each with the most recent
\* message of the pair and the number of stored unread messages from that
\* partner to the user, ordered by the last message's createdAt descending.
C24_RecentConversations ==
  last.op \in {"rest_conversations", "getRecentConversations"}
    => LET u == last.actor
           limit == last.n
       IN /\ Len(result) <= limit
          /\ Len(result) = IF Cardinality(PartnersOf(u)) < limit
                           THEN Cardinality(PartnersOf(u)) ELSE limit
          /\ \A i \in 1..Len(result) :
               /\ result[i].partnerId \in PartnersOf(u)
               /\ \A j \in 1..Len(result) :
                    i # j => result[i].partnerId # result[j].partnerId
               /\ \E m \in Conversation(u, result[i].partnerId) :
                    /\ m.id = result[i].lastMessage
                    /\ \A m2 \in Conversation(u, result[i].partnerId) :
                         m2.createdAt <= m.createdAt
               /\ result[i].unreadCount =
                    Cardinality(UnreadFrom(result[i].partnerId, u))
               /\ \A j \in 1..Len(result) :
                    i < j => result[i].lastMessageTime
                               >= result[j].lastMessageTime

(***************************************************************************)
(* mark_as_read against a store that fails                                 *)
(***************************************************************************)
\* await ChatMessage.updateMany(...) rejects, before or in the middle of its
\* writes; the catch block of handleMarkAsRead logs to the console and the
\* handler returns
MarkThrow(k) ==
  /\ calls[k].op = "mark_as_read"
  /\ calls[k].pc = "updateMany"
  /\ out' = {}
  /\ Finish(k, "logged", calls[k].n)
  /\ UNCHANGED <<accounts, signups, trainerId, sockVars, messages, nextId,
                 now, docs, result>>

NextMarkFault ==
  \/ \E tok \in {x \in ValidTokens : x.sub \in Pair} : Open({"s1", "s2"}, tok)
  \/ \E b \in Pair : RestSendMessage("c1", b, TextOk)
  \/ \E s \in Sockets, u \in Pair : MarkStart("k1", s, u)
  \/ \E i \in 1..MaxMsgs : MarkDoc("k1", i)
  \/ MarkEmit("k1")
  \/ MarkThrow("k1")
  \/ Return("k1")
  \/ Tick

SpecMarkFault == Init /\ [][NextMarkFault]_vars

\* C25: when the store fails during a mark_as_read, the socket that sent the
\* action receives an error event, nobody receives messages_read, and the
\* update is not attempted again.
C25_MarkFailureSurfaced ==
  (last.op = "mark_as_read" /\ last.res # "ok")
    => /\ \E e \in out : e.ev = "error" /\ e.to = last.sock
       /\ \A e \in out : e.ev # "messages_read"
       /\ \A k \in Calls :
            calls[k].op = "mark_as_read" => calls[k].pc = "done"

(***************************************************************************)
(* getMessages step by step: the page is read by one query and the unread  *)
(* messages are marked by a later one                                      *)
(***************************************************************************)
\* GET /api/chat/:partnerId?page&limit passes authorizeChatAccess and
\* ChatMessage.find(...).sort().skip().limit() resolves: the slot keeps the
\* ids of the page in todo; countDocuments follows and changes nothing
GetFind(k, actor, partnerId, page, limit) ==
  /\ calls[k].pc = "idle"
  /\ LET gate == authorizeChatAccess(actor, partnerId) IN
     IF gate # "ok"
     THEN /\ calls' = [calls EXCEPT ![k] =
                         [IdleCall EXCEPT !.pc = "done", !.op = "rest_get",
                                          !.actor = actor,
                                          !.partner = partnerId,
                                          !.res = gate]]
          /\ last' = Op("rest_get", None, actor, partnerId, gate, 0)
          /\ result' = <<>>
     ELSE \E q \in SortedByCreatedAtDesc(Conversation(actor, partnerId)) :
            LET ids == Ids(Page(q, (page - 1) * limit, limit)) IN
            /\ calls' = [calls EXCEPT ![k] =
                           [IdleCall EXCEPT !.pc = "updateMany",
                                            !.op = "rest_get",
                                            !.actor = actor,
                                            !.partner = partnerId,
                                            !.todo = Range(ids)]]
            /\ last' = Op("await", None, actor, partnerId, "updateMany", 0)
            /\ result' = ids
  /\ out' = {}
  /\ UNCHANGED <<accounts, signups, trainerId, sockVars, messages, nextId,
                 now, docs>>

\* ChatMessage.updateMany({senderId: partnerId, receiverId: currentUserId,
\* isRead: false}, {$set: {isRead: true, readAt}}) resolves; 200 is answered
\* with the page read before
GetUpdateMany(k) ==
  /\ calls[k].op = "rest_get"
  /\ calls[k].pc = "updateMany"
  /\ messages' = MarkRead(calls[k].partner, calls[k].actor)
  /\ Finish(k, "ok", Cardinality(calls[k].todo))
  /\ out' = {}
  /\ UNCHANGED <<accounts, signups, trainerId, sockVars, nextId, now, docs,
                 result>>

NextHistory ==
  \/ \E a \in Pair, b \in Pair : RestSendMessage(a, b, TextOk)
  \/ \E a \in Pair, b \in Users, pg \in Pages, l \in Limits :
       GetFind("k1", a, b, pg, l)
  \/ GetUpdateMany("k1")
  \/ Return("k1")
  \/ Tick

SpecHistory == Init /\ [][NextHistory]_vars

\* C26: every message a getMessages call marks as read is on the page the
\* same call returned; a message of another page, or one persisted after the
\* call read its page, is still unread when the call ends.
C26_MarksOnlyReturned ==
  [][\A k \in Calls :
       GetUpdateMany(k)
         => \A m \in messages :
              (~m.isRead /\ \E m2 \in messages' : m2.id = m.id /\ m2.isRead)
                => m.id \in calls[k].todo]_vars

(***************************************************************************)
(* The two authorization gates over every population of users              *)
(***************************************************************************)
\* the role / trainerId combinations user documents can hold: register
\* accepts any role together with a trainerId, provided the trainerId names
\* an existing user whose role is TRAINER; assignClient links USER documents
\* only; roles never change afterwards
Populations ==
  {pop \in [role : [Users -> {TRAINER, USER}],
            trainerId : [Users -> Users \cup {None}]] :
     \A u \in Users :
        pop.trainerId[u] # None
          => pop.trainerId[u] # u /\ pop.role[pop.trainerId[u]] = TRAINER}

\* the state after construction, for any population of user documents
InitPopulation ==
  \E pop \in Populations :
    /\ calls = [k \in Calls |-> IdleCall]
    /\ accounts = [u \in Users |->
                     [email |-> u,
                      role |-> pop.role[u],
                      password |-> "hash",
                      clients |-> {c \in Users : pop.trainerId[c] = u},
                      isActive |-> TRUE,
                      firstName |-> "Ana"]]
    /\ signups = {}
    /\ trainerId = pop.trainerId
    /\ sockState = [s \in Sockets |-> "free"]
    /\ sockUser = [s \in Sockets |-> None]
    /\ connectedUsers = [u \in Users |-> None]
    /\ rooms = {}
    /\ messages = {}
    /\ nextId = 1
    /\ now = 0
    /\ docs = {}
    /\ result = <<>>
    /\ out = {}
    /\ last = Op("init", None, None, None, "ok", 0)

NextGates ==
  \/ \E tok \in ValidTokens : Open({"s1"}, tok)
  \/ \E s \in Sockets : Disconnect(s)
  \/ \E s \in Sockets, r \in Users : SocketSendMessage(s, r, TextOk)
  \/ \E a \in Users, b \in Users : RestSendMessage(a, b, TextOk)

SpecGates == InitPopulation /\ [][NextGates]_vars

\* C28: for every pair of existing users, whatever their roles and trainerId
\* values, authorizeChatAccess lets the pair through exactly when
\* canUsersChat does, and both do exactly when one of the two is the other's
\* assigned trainer.
C28_GatesAgree ==
  (last.op \in {"rest_send", "send_message"} /\ last.partner \in Users)
    => LET a == last.actor
           b == last.partner
       IN /\ (authorizeChatAccess(a, b) = "ok") <=> canUsersChat(a, b)
          /\ canUsersChat(a, b) <=> Linked(a, b)
          /\ last.op = "rest_send"
               => (last.res = "CHAT_NOT_ALLOWED" <=> ~canUsersChat(a, b))

(***************************************************************************)
(* Trainer-client links under concurrent assign, unassign and register     *)
(***************************************************************************)
NextLinks ==
  \/ \E k \in Calls, c \in {"c1", "c2"} : AssignStart(k, "t1", c)
  \/ \E k \in Calls : AssignFindById(k)
  \/ \E k \in Calls : AssignSave(k)
  \/ \E k \in Calls : AssignAddToSet(k)
  \/ \E k \in Calls, c \in {"c1", "c2"} : UnassignStart(k, "t1", c)
  \/ \E k \in Calls : UnassignFindById(k)
  \/ \E k \in Calls : UnassignSave(k)
  \/ \E k \in Calls : UnassignPull(k)
  \/ \E k \in Calls, t \in {None, "t1", "c1"} :
       RegisterStart(k, "ana@x.es", t)
  \/ \E k \in Calls : RegisterFindOne(k)
  \/ \E k \in Calls : RegisterFindById(k)
  \/ \E k \in Calls : RegisterSave(k)
  \/ \E k \in Calls : RegisterAddToSet(k)
  \/ \E k \in Calls : Return(k)

SpecLinks == Init /\ [][NextLinks]_vars

\* the trainerId of a user document, be it an initial user or a signup
TrainerOf(c) ==
  IF c \in Users THEN trainerId[c]
  ELSE LET d == CHOOSE x \in signups : SignupId(x.id) = c IN d.trainerId

\* the ids of all user documents
AllUsers == Users \cup {SignupId(d.id) : d \in signups}

\* no assign, unassign or register call is in flight
Quiescent == \A k \in Calls : calls[k].pc \in {"idle", "done"}

\* C29: once the assign, unassign and register calls in flight have ended,
\* every client is in the clients list of at most one trainer, and a client
\* is in a trainer's clients list exactly when its trainerId is that trainer.
C29_ClientsMatchTrainerId ==
  Quiescent
    => /\ \A c \in AllUsers :
            Cardinality({t \in Users : c \in accounts[t].clients}) <= 1
       /\ \A t \in Users, c \in AllUsers :
            c \in accounts[t].clients <=> TrainerOf(c) = t

====
